---- MODULE Spec2Model ----
(***************************************************************************)
(* Persistence layer of wallet.rs: the key-value backend adapters (JammDB  *)
(* and RocksDB of src/storage, JammDB of wallet/src/storage/adapter), the  *)
(* encrypting Storage wrapper and the StorageManager (schema-version gate, *)
(* account index registry).                                                *)
(*                                                                         *)
(* Records are byte strings (sequences of numbers below 128).  A store is  *)
(* a function from the keys it holds to their records; an absent key is   *)
(* outside its DOMAIN.  Backend faults (a transaction that cannot be       *)
(* opened, a failed put, a failed commit, an I/O error) are chosen         *)
(* nondeterministically at every storage call: fault = 0 is "no fault".    *)
(***************************************************************************)
EXTENDS Integers, Sequences, FiniteSets, TLC

VARIABLES
    backend,          \* which StorageAdapter implementation backs the store
    store,            \* committed contents of the backend: key -> record
    encryption_key,   \* Storage.encryption_key: "None" or "Key"
    manager,          \* "closed": no StorageManager handle; "open": one exists
    account_indexes,  \* StorageManager.account_indexes (in-memory registry)
    op,               \* the last operation, its arguments and its result
    pre_store,        \* store as it was when op started
    latest,           \* adapter history: key -> record of its last successful set / batch_set
    removed,          \* adapter history: keys removed with success, not set with success since
    saved,            \* manager history: index -> account of the last successful save_account
                      \* with no remove_account call since
    unsaved,          \* manager history, kept while every operation before op succeeded:
                      \* indexes saved with success and then removed with success, not
                      \* saved since
    prior_ok,         \* manager history: every manager operation before op returned success
    writes,           \* the set / remove calls op made on the adapter, in order, with the
                      \* record each handed to it (a call that failed included)
    saved_data,       \* manager history: the builder of the most recent successful
                      \* save_account_manager_data (NoBuilder when there was none)
    lock,             \* the Mutex of the StorageManagerHandle: 0 when free, else the task
                      \* that holds its guard
    pc,               \* per task: Idle, Waiting (for the lock), or the number (1, 2, ..)
                      \* of the next storage call of the manager operation it is in
    job               \* per task: the manager operation the task is in and its arguments

vars == <<backend, store, encryption_key, manager, account_indexes, op, pre_store,
          latest, removed, saved, unsaved, prior_ok, writes, saved_data, lock, pc, job>>

----------------------------------------------------------------------------
(* Bounds of the model *)

NumKeys == 2        \* adapter-level keys used by the raw adapter operations
NumIndexes == 2     \* account indexes 0 .. NumIndexes-1
NumTasks == 2       \* tasks that share one StorageManagerHandle

----------------------------------------------------------------------------
(* Keys *)

AdapterKeyTable == <<"a", "b", "c", "d">>
AdapterKeys == {AdapterKeyTable[i] : i \in 1..NumKeys}

DATABASE_SCHEMA_VERSION == 1
DATABASE_SCHEMA_VERSION_KEY == "database-schema-version"
ACCOUNTS_INDEXATION_KEY == "iota-wallet-accounts"
ACCOUNT_INDEXATION_KEY == "iota-wallet-account-"
ACCOUNT_MANAGER_INDEXATION_KEY == "iota-wallet-account-manager"
SECRET_MANAGER_KEY == "secret_manager"

AccountKeyTable == <<"iota-wallet-account-0", "iota-wallet-account-1",
                     "iota-wallet-account-2", "iota-wallet-account-3">>

\* format!("{ACCOUNT_INDEXATION_KEY}{account_index}")
AccountKey(account_index) == AccountKeyTable[account_index + 1]

Indexes == 0..(NumIndexes - 1)

\* an Account: its index and the rest of its contents (two distinguishable contents)
Accounts == [index : Indexes, payload : {1, 2}]

\* schema versions a store may have been written with (u8), the running one among them
Versions == {0, DATABASE_SCHEMA_VERSION, 2}

----------------------------------------------------------------------------
(* Byte strings and stores *)

EmptyStore == [k \in {} |-> <<>>]

Put(st, k, v) == [x \in (DOMAIN st) \cup {k} |-> IF x = k THEN v ELSE st[x]]

Delete(st, k) == [x \in (DOMAIN st) \ {k} |-> st[x]]

\* String::from_utf8_lossy(..).to_string(), as the sequence of the string's code
\* points: a well-formed UTF-8 sequence is decoded, every maximal ill-formed part
\* (a start byte and the continuation bytes accepted after it) becomes one U+FFFD.

\* the length of the sequence a start byte announces; 0 for a byte that starts none
utf8_char_width(b) ==
    IF b < 128 THEN 1
    ELSE IF b \in 194..223 THEN 2
    ELSE IF b \in 224..239 THEN 3
    ELSE IF b \in 240..244 THEN 4
    ELSE 0

\* the byte at position i, if any, lies in lo..hi
safe_get_in(bytes, i, lo, hi) == i <= Len(bytes) /\ bytes[i] \in lo..hi

\* the bounds of the second byte: no overlong form, no surrogate, nothing above U+10FFFF
utf8_second_lo(b) == IF b = 224 THEN 160 ELSE IF b = 240 THEN 144 ELSE 128

utf8_second_hi(b) == IF b = 237 THEN 159 ELSE IF b = 244 THEN 143 ELSE 191

\* how many bytes from position i on are taken as one sequence or one ill-formed part
utf8_taken(bytes, i) ==
    LET b == bytes[i]
        w == utf8_char_width(b)
    IN  IF w >= 2 /\ safe_get_in(bytes, i + 1, utf8_second_lo(b), utf8_second_hi(b))
        THEN IF w >= 3 /\ safe_get_in(bytes, i + 2, 128, 191)
             THEN IF w >= 4 /\ safe_get_in(bytes, i + 3, 128, 191) THEN 4 ELSE 3
             ELSE 2
        ELSE 1

\* the code point of the well-formed sequence of w bytes at position i
utf8_code_point(bytes, i, w) ==
    CASE w = 1 -> bytes[i]
      [] w = 2 -> (bytes[i] - 192) * 64 + (bytes[i + 1] - 128)
      [] w = 3 -> (bytes[i] - 224) * 4096 + (bytes[i + 1] - 128) * 64 + (bytes[i + 2] - 128)
      [] w = 4 -> (bytes[i] - 240) * 262144 + (bytes[i + 1] - 128) * 4096
                  + (bytes[i + 2] - 128) * 64 + (bytes[i + 3] - 128)

RECURSIVE utf8_lossy_from(_, _)
utf8_lossy_from(bytes, i) ==
    IF i > Len(bytes) THEN <<>>
    ELSE LET n == utf8_taken(bytes, i)
         IN  <<IF n = utf8_char_width(bytes[i]) THEN utf8_code_point(bytes, i, n) ELSE 65533>>
             \o utf8_lossy_from(bytes, i + n)

from_utf8_lossy(bytes) == utf8_lossy_from(bytes, 1)

\* record.as_bytes() / the String handed to put
Value(n) == <<48 + n>>
Values == {Value(1), Value(2)}

\* the result of an adapter call
Res(res, detail, out, st) == [res |-> res, detail |-> detail, out |-> out, store |-> st]

----------------------------------------------------------------------------
(* Backend adapters.  A writable jammdb transaction works on a private copy *)
(* of the bucket; commit publishes the copy, dropping the transaction       *)
(* without commit discards it.  Bucket::delete fails with KeyValueMissing   *)
(* when the key is not in the bucket.                                       *)

Backends == {"JammDB", "RocksDB", "WalletJammDB"}

\* the puts of a batch, applied in order to a transaction / write batch
RECURSIVE PutAll(_, _)
PutAll(tx, records) ==
    IF records = <<>> THEN tx
    ELSE PutAll(Put(tx, records[1][1], records[1][2]), Tail(records))

\* how many puts of a batch ran before the fault (all of them when there is none)
PutsDone(records, fault) ==
    IF fault = 0 \/ fault > Len(records) THEN Len(records) ELSE fault - 1

(* src/storage/jammdb.rs *)

JammdbStorageAdapter_get(st, key, fault) ==
    IF fault # 0 THEN Res("Storage", "io", <<>>, st)
    ELSE IF key \in DOMAIN st THEN Res("Ok", "", from_utf8_lossy(st[key]), st)
    ELSE Res("RecordNotFound", "", <<>>, st)

JammdbStorageAdapter_set_nocommit(st, key, record, fault) ==
    IF fault # 0 THEN Res("Storage", "io", <<>>, st)
    ELSE Res("Ok", "", <<>>, st)

JammdbStorageAdapter_set(st, key, record, fault) ==
    IF fault # 0 THEN Res("Storage", "io", <<>>, st)
    ELSE LET tx == Put(st, key, record)
         IN  Res("Ok", "", <<>>, tx)                       \* tx.commit()

JammdbStorageAdapter_batch_set_partial(st, records, fault) ==
    LET tx == PutAll(st, SubSeq(records, 1, PutsDone(records, fault)))
    IN  IF fault # 0 THEN Res("Storage", "io", <<>>, tx)
        ELSE Res("Ok", "", <<>>, tx)

JammdbStorageAdapter_batch_set(st, records, fault) ==
    LET tx == PutAll(st, SubSeq(records, 1, PutsDone(records, fault)))
    IN  IF fault # 0 THEN Res("Storage", "io", <<>>, st)   \* tx dropped
        ELSE Res("Ok", "", <<>>, tx)                       \* tx.commit()

JammdbStorageAdapter_remove(st, key, fault) ==
    IF fault # 0 THEN Res("Storage", "io", <<>>, st)
    ELSE IF key \notin DOMAIN st THEN Res("Storage", "KeyValueMissing", <<>>, st)
    ELSE LET tx == Delete(st, key)
         IN  Res("Ok", "", <<>>, st)                       \* tx dropped, no commit

(* src/storage/rocksdb.rs *)

RocksdbStorageAdapter_get(st, key, fault) ==
    IF fault # 0 THEN Res("Storage", "io", <<>>, st)
    ELSE IF key \in DOMAIN st THEN Res("Ok", "", from_utf8_lossy(st[key]), st)
    ELSE Res("RecordNotFound", "", <<>>, st)

RocksdbStorageAdapter_set(st, key, record, fault) ==
    IF fault # 0 THEN Res("Storage", "io", <<>>, st)
    ELSE Res("Ok", "", <<>>, Put(st, key, record))

RocksdbStorageAdapter_batch_set(st, records, fault) ==
    LET batch == PutAll(st, records)
    IN  IF fault # 0 THEN Res("Storage", "io", <<>>, st)   \* db.write(batch) failed
        ELSE Res("Ok", "", <<>>, batch)

RocksdbStorageAdapter_remove(st, key, fault) ==
    IF fault # 0 THEN Res("Storage", "io", <<>>, st)
    ELSE Res("Ok", "", <<>>, Delete(st, key))

(* wallet/src/storage/adapter/jammdb.rs: errors are crate::Error::from(jammdb::Error) *)

WalletJammdbStorageAdapter_get(st, key, fault) ==
    IF fault # 0 THEN Res("Jammdb", "io", <<>>, st)
    ELSE IF key \in DOMAIN st THEN Res("Ok", "", from_utf8_lossy(st[key]), st)
    ELSE Res("Jammdb", "KeyValueMissing", <<>>, st)

WalletJammdbStorageAdapter_set(st, key, record, fault) ==
    IF fault # 0 THEN Res("Jammdb", "io", <<>>, st)
    ELSE LET tx == Put(st, key, record)
         IN  Res("Ok", "", <<>>, tx)                       \* tx.commit()

WalletJammdbStorageAdapter_batch_set(st, records, fault) ==
    LET tx == PutAll(st, SubSeq(records, 1, PutsDone(records, fault)))
    IN  IF fault # 0 THEN Res("Jammdb", "io", <<>>, st)    \* tx dropped
        ELSE Res("Ok", "", <<>>, tx)                       \* tx.commit()

WalletJammdbStorageAdapter_remove(st, key, fault) ==
    IF fault # 0 THEN Res("Jammdb", "io", <<>>, st)
    ELSE IF key \notin DOMAIN st THEN Res("Jammdb", "KeyValueMissing", <<>>, st)
    ELSE LET tx == Delete(st, key)
         IN  Res("Ok", "", <<>>, st)                       \* tx dropped, no commit

(* Box<dyn StorageAdapter>: dispatch on the implementation *)

adapter_get(b, st, key, fault) ==
    CASE b = "JammDB" -> JammdbStorageAdapter_get(st, key, fault)
      [] b = "RocksDB" -> RocksdbStorageAdapter_get(st, key, fault)
      [] b = "WalletJammDB" -> WalletJammdbStorageAdapter_get(st, key, fault)

adapter_set(b, st, key, record, fault) ==
    CASE b = "JammDB" -> JammdbStorageAdapter_set(st, key, record, fault)
      [] b = "RocksDB" -> RocksdbStorageAdapter_set(st, key, record, fault)
      [] b = "WalletJammDB" -> WalletJammdbStorageAdapter_set(st, key, record, fault)

adapter_batch_set(b, st, records, fault) ==
    CASE b = "JammDB" -> JammdbStorageAdapter_batch_set(st, records, fault)
      [] b = "RocksDB" -> RocksdbStorageAdapter_batch_set(st, records, fault)
      [] b = "WalletJammDB" -> WalletJammdbStorageAdapter_batch_set(st, records, fault)

adapter_remove(b, st, key, fault) ==
    CASE b = "JammDB" -> JammdbStorageAdapter_remove(st, key, fault)
      [] b = "RocksDB" -> RocksdbStorageAdapter_remove(st, key, fault)
      [] b = "WalletJammDB" -> WalletJammdbStorageAdapter_remove(st, key, fault)

\* the ways an adapter's get says "no such key"
NotFoundSignal(r) ==
    \/ r.res = "RecordNotFound"
    \/ r.res = "Jammdb" /\ r.detail = "KeyValueMissing"

----------------------------------------------------------------------------
(* Storage: serialization and optional encryption around the adapter *)

\* serde_json::to_string of a u8, of a Vec<u32>, of an Account, as text
ser_u8(v) == <<48 + v>>
de_u8(bytes) == bytes[1] - 48

ser_indexes(indexes) == <<91>> \o [i \in 1..Len(indexes) |-> 48 + indexes[i]] \o <<93>>
de_indexes(bytes) == [i \in 1..(Len(bytes) - 2) |-> bytes[i + 1] - 48]

ser_account(account) == <<123, 48 + account.index, 58, 48 + account.payload, 125>>
de_account(bytes) == [index |-> bytes[2] - 48, payload |-> bytes[4] - 48]

\* authenticated encryption of a record: a marker, then the bytes shifted
Encrypt(bytes) == <<33>> \o [i \in 1..Len(bytes) |-> (bytes[i] + 1) % 128]
IsCipher(bytes) == Len(bytes) > 0 /\ bytes[1] = 33
Decrypt(bytes) == [i \in 1..(Len(bytes) - 1) |-> (bytes[i + 1] + 127) % 128]

\* what Storage hands to the adapter for a serialized record
Sealed_plain(ek, bytes) == bytes

Sealed(ek, bytes) == IF ek = "Key" THEN Encrypt(bytes) ELSE bytes

\* the result of a Storage::get: Some(record), None, or an error
Got(tag, val, res, detail) == [tag |-> tag, val |-> val, res |-> res, detail |-> detail]

\* Storage::get: the adapter's record, decrypted when a key is configured.  An
\* adapter of the RecordNotFound contract reports an absent key as such; that is
\* None here.  Every other adapter error is returned as it is.
Storage_get(b, ek, st, key, fault) ==
    LET r == adapter_get(b, st, key, fault)
    IN  IF r.res = "Ok"
        THEN IF ek # "Key" THEN Got("Some", r.out, "Ok", "")
             ELSE IF IsCipher(r.out) THEN Got("Some", Decrypt(r.out), "Ok", "")
             ELSE Got("Err", <<>>, "DecryptionError", "")
        ELSE IF r.res = "RecordNotFound" THEN Got("None", <<>>, "Ok", "")
        ELSE Got("Err", <<>>, r.res, r.detail)

\* Storage::set
Storage_set(b, ek, st, key, bytes, fault) == adapter_set(b, st, key, Sealed(ek, bytes), fault)

\* Storage::remove
Storage_remove(b, st, key, fault) == adapter_remove(b, st, key, fault)

\* the k-th storage call of an operation fails when fault = k
FaultAt(fault, k) == IF fault = k THEN 1 ELSE 0

----------------------------------------------------------------------------
(* StorageManager (wallet/src/storage/manager.rs) *)

\* the result of a manager operation
Out(res, detail, st, indexes, accounts, handle) ==
    [res |-> res, detail |-> detail, store |-> st, account_indexes |-> indexes,
     accounts |-> accounts, manager |-> handle]

Contains(indexes, idx) == \E i \in 1..Len(indexes) : indexes[i] = idx

\* db_schema_version != DATABASE_SCHEMA_VERSION
schema_mismatch(db_schema_version) == db_schema_version # DATABASE_SCHEMA_VERSION

\* storage.get(ACCOUNTS_INDEXATION_KEY).await?.unwrap_or_default(), then the handle
load_account_indexes(b, ek, st, fault) ==
    LET g == Storage_get(b, ek, st, ACCOUNTS_INDEXATION_KEY, fault)
    IN  IF g.tag = "Err" THEN Out(g.res, g.detail, st, <<>>, <<>>, "closed")
        ELSE IF g.tag = "None" THEN Out("Ok", "", st, <<>>, <<>>, "open")
        ELSE Out("Ok", "", st, de_indexes(g.val), <<>>, "open")

new_storage_manager_overwrite(b, ek, st, fault) ==
    LET g == Storage_get(b, ek, st, DATABASE_SCHEMA_VERSION_KEY, FaultAt(fault, 1))
        s == Storage_set(b, ek, st, DATABASE_SCHEMA_VERSION_KEY,
                         ser_u8(DATABASE_SCHEMA_VERSION), FaultAt(fault, 2))
    IN  IF g.tag = "Err" THEN Out(g.res, g.detail, st, <<>>, <<>>, "closed")
        ELSE IF g.tag = "Some"
        THEN IF schema_mismatch(de_u8(g.val))
             THEN Out("Storage", "unsupported database schema version", s.store,
                      <<>>, <<>>, "closed")
             ELSE load_account_indexes(b, ek, st, FaultAt(fault, 2))
        ELSE IF s.res # "Ok" THEN Out(s.res, s.detail, s.store, <<>>, <<>>, "closed")
             ELSE load_account_indexes(b, ek, s.store, FaultAt(fault, 3))

new_storage_manager_no_init(b, ek, st, fault) ==
    LET g == Storage_get(b, ek, st, DATABASE_SCHEMA_VERSION_KEY, FaultAt(fault, 1))
    IN  IF g.tag = "Err" THEN Out(g.res, g.detail, st, <<>>, <<>>, "closed")
        ELSE IF g.tag = "Some"
        THEN IF schema_mismatch(de_u8(g.val))
             THEN Out("Storage", "unsupported database schema version", st,
                      <<>>, <<>>, "closed")
             ELSE load_account_indexes(b, ek, st, FaultAt(fault, 2))
        ELSE load_account_indexes(b, ek, st, FaultAt(fault, 2))

new_storage_manager(b, ek, st, fault) ==
    LET g == Storage_get(b, ek, st, DATABASE_SCHEMA_VERSION_KEY, FaultAt(fault, 1))
        s == Storage_set(b, ek, st, DATABASE_SCHEMA_VERSION_KEY,
                         ser_u8(DATABASE_SCHEMA_VERSION), FaultAt(fault, 2))
    IN  IF g.tag = "Err" THEN Out(g.res, g.detail, st, <<>>, <<>>, "closed")
        ELSE IF g.tag = "Some"
        THEN IF schema_mismatch(de_u8(g.val))
             THEN Out("Storage", "unsupported database schema version", st,
                      <<>>, <<>>, "closed")
             ELSE load_account_indexes(b, ek, st, FaultAt(fault, 2))
        ELSE IF s.res # "Ok" THEN Out(s.res, s.detail, s.store, <<>>, <<>>, "closed")
             ELSE load_account_indexes(b, ek, s.store, FaultAt(fault, 3))

\* if !self.account_indexes.contains(account.index()) { push }
push_always(indexes, idx) == Append(indexes, idx)

push_if_absent(indexes, idx) ==
    IF ~Contains(indexes, idx) THEN Append(indexes, idx) ELSE indexes

\* self.account_indexes.retain(|a| a != &account_index)
retain_all(indexes, idx) == indexes

retain(indexes, idx) == SelectSeq(indexes, LAMBDA a : a # idx)

save_account_ignore_error(b, ek, st, indexes, account, fault) ==
    LET indexes2 == push_if_absent(indexes, account.index)
        s1 == Storage_set(b, ek, st, ACCOUNTS_INDEXATION_KEY, ser_indexes(indexes2),
                          FaultAt(fault, 1))
        s2 == Storage_set(b, ek, s1.store, AccountKey(account.index), ser_account(account),
                          FaultAt(fault, 2))
    IN  IF s1.res # "Ok" THEN Out(s1.res, s1.detail, s2.store, indexes2, <<>>, "open")
        ELSE Out(s2.res, s2.detail, s2.store, indexes2, <<>>, "open")

save_account(b, ek, st, indexes, account, fault) ==
    LET indexes2 == push_if_absent(indexes, account.index)
        s1 == Storage_set(b, ek, st, ACCOUNTS_INDEXATION_KEY, ser_indexes(indexes2),
                          FaultAt(fault, 1))
        s2 == Storage_set(b, ek, s1.store, AccountKey(account.index), ser_account(account),
                          FaultAt(fault, 2))
    IN  IF s1.res # "Ok" THEN Out(s1.res, s1.detail, s1.store, indexes2, <<>>, "open")
        ELSE Out(s2.res, s2.detail, s2.store, indexes2, <<>>, "open")

remove_account_retain_first(b, ek, st, indexes, account_index, fault) ==
    LET r == Storage_remove(b, st, AccountKey(account_index), FaultAt(fault, 1))
        indexes2 == retain(indexes, account_index)
        s == Storage_set(b, ek, r.store, ACCOUNTS_INDEXATION_KEY, ser_indexes(indexes2),
                         FaultAt(fault, 2))
    IN  IF r.res # "Ok" THEN Out(r.res, r.detail, r.store, indexes2, <<>>, "open")
        ELSE Out(s.res, s.detail, s.store, indexes2, <<>>, "open")

remove_account(b, ek, st, indexes, account_index, fault) ==
    LET r == Storage_remove(b, st, AccountKey(account_index), FaultAt(fault, 1))
        indexes2 == retain(indexes, account_index)
        s == Storage_set(b, ek, r.store, ACCOUNTS_INDEXATION_KEY, ser_indexes(indexes2),
                         FaultAt(fault, 2))
    IN  IF r.res # "Ok" THEN Out(r.res, r.detail, r.store, indexes, <<>>, "open")
        ELSE Out(s.res, s.detail, s.store, indexes2, <<>>, "open")

\* the for loop of get_accounts over indexes[k..], accounts so far in acc; the
\* k-th record is read by the (k+1)-th storage call of the operation
RECURSIVE fetch_accounts(_, _, _, _, _, _, _)
fetch_accounts(b, ek, st, indexes, k, acc, fault) ==
    IF k > Len(indexes) THEN Out("Ok", "", st, indexes, acc, "open")
    ELSE LET g == Storage_get(b, ek, st, AccountKey(indexes[k]), FaultAt(fault, k + 1))
         IN  IF g.tag = "Err" THEN Out(g.res, g.detail, st, indexes, <<>>, "open")
             ELSE IF g.tag = "None" THEN Out("Panic", "unwrap on None", st, indexes, <<>>, "open")
             ELSE fetch_accounts(b, ek, st, indexes, k + 1, Append(acc, de_account(g.val)), fault)

get_accounts_empty(b, ek, st, indexes, fault) == Out("Ok", "", st, indexes, <<>>, "open")

get_accounts(b, ek, st, indexes, fault) ==
    LET g == Storage_get(b, ek, st, ACCOUNTS_INDEXATION_KEY, FaultAt(fault, 1))
        indexes2 == IF indexes = <<>> THEN de_indexes(g.val) ELSE indexes
    IN  IF g.tag = "Err" THEN Out(g.res, g.detail, st, indexes, <<>>, "open")
        ELSE IF g.tag = "None" THEN Out("Ok", "", st, indexes, <<>>, "open")
        ELSE fetch_accounts(b, ek, st, indexes2, 1, <<>>, fault)

----------------------------------------------------------------------------
(* The write calls a manager operation makes on the adapter.  Storage::set *)
(* hands the adapter the sealed record; a call is made when every storage  *)
(* call before it in the operation returned without error (.await?).       *)

Write(call, key, record) == [call |-> call, key |-> key, record |-> record]

new_storage_manager_writes(b, ek, st, fault) ==
    LET g == Storage_get(b, ek, st, DATABASE_SCHEMA_VERSION_KEY, FaultAt(fault, 1))
    IN  IF g.tag = "None"
        THEN <<Write("set", DATABASE_SCHEMA_VERSION_KEY,
                     Sealed(ek, ser_u8(DATABASE_SCHEMA_VERSION)))>>
        ELSE <<>>

save_account_writes(b, ek, st, indexes, account, fault) ==
    LET indexes2 == push_if_absent(indexes, account.index)
        s1 == Storage_set(b, ek, st, ACCOUNTS_INDEXATION_KEY, ser_indexes(indexes2),
                          FaultAt(fault, 1))
    IN  <<Write("set", ACCOUNTS_INDEXATION_KEY, Sealed(ek, ser_indexes(indexes2)))>>
        \o (IF s1.res = "Ok"
            THEN <<Write("set", AccountKey(account.index), Sealed(ek, ser_account(account)))>>
            ELSE <<>>)

remove_account_writes(b, ek, st, indexes, account_index, fault) ==
    LET r == Storage_remove(b, st, AccountKey(account_index), FaultAt(fault, 1))
        indexes2 == retain(indexes, account_index)
    IN  <<Write("remove", AccountKey(account_index), <<>>)>>
        \o (IF r.res = "Ok"
            THEN <<Write("set", ACCOUNTS_INDEXATION_KEY, Sealed(ek, ser_indexes(indexes2)))>>
            ELSE <<>>)

----------------------------------------------------------------------------
(* Account manager data: the AccountManagerBuilder and the snapshot of its *)
(* secret manager.  A secret manager is its variant and the secret it      *)
(* holds (mnemonic seed, stronghold password); the builder's               *)
(* secret_manager field is not part of the builder's serialization.        *)

NoSecretManager == [variant |-> "None", secret |-> 0]

SecretManagers ==
    {[variant |-> "Mnemonic", secret |-> 1],
     [variant |-> "Stronghold", secret |-> 1],
     [variant |-> "LedgerNano", secret |-> 0]}

\* an AccountManagerBuilder: its options and its secret manager, if any
Builders == [client_options : {1, 2}, secret_manager : {NoSecretManager} \cup SecretManagers]

NoBuilder == [client_options |-> 0, secret_manager |-> NoSecretManager]

\* SecretManagerDto::from(&SecretManager): the variant, without the secret
SecretManagerDto_from(secret_manager) == [variant |-> secret_manager.variant, secret |-> 0]

\* SecretManager::try_from(&SecretManagerDto) returns a Result: the conversion is
\* code of iota_client, its outcome is an input ("Ok" or "Err")
Conversions == {"Ok", "Err"}

SecretManager_try_from(dto, conversion) ==
    IF conversion = "Ok"
    THEN [res |-> "Ok", detail |-> "",
          secret_manager |-> [variant |-> dto.variant, secret |-> dto.secret]]
    ELSE [res |-> "Client", detail |-> "try_from failed", secret_manager |-> NoSecretManager]

\* serde_json of a SecretManagerDto: the variant's tag
ser_secret_manager(dto) ==
    CASE dto.variant = "Mnemonic" -> <<77>>
      [] dto.variant = "Stronghold" -> <<83>>
      [] dto.variant = "LedgerNano" -> <<76>>

de_secret_manager(bytes) ==
    [variant |-> CASE bytes[1] = 77 -> "Mnemonic"
                   [] bytes[1] = 83 -> "Stronghold"
                   [] bytes[1] = 76 -> "LedgerNano",
     secret |-> 0]

\* serde_json of an AccountManagerBuilder (secret_manager skipped)
ser_builder(builder) == <<98, 48 + builder.client_options>>

de_builder(bytes) == [client_options |-> bytes[2] - 48, secret_manager |-> NoSecretManager]

\* the result of save_account_manager_data / get_account_manager_data
DataOut(res, detail, st, builder) ==
    [res |-> res, detail |-> detail, store |-> st, builder |-> builder]

\* match secret_manager_dto { SecretManagerDto::Mnemonic(_) => {} _ => { set } }
persist_any_variant(dto) == TRUE

persist_variant(dto) == dto.variant # "Mnemonic"

save_account_manager_data(b, ek, st, builder, fault) ==
    LET s1 == Storage_set(b, ek, st, ACCOUNT_MANAGER_INDEXATION_KEY, ser_builder(builder),
                          FaultAt(fault, 1))
        dto == SecretManagerDto_from(builder.secret_manager)
        s2 == Storage_set(b, ek, s1.store, SECRET_MANAGER_KEY, ser_secret_manager(dto),
                          FaultAt(fault, 2))
    IN  IF s1.res # "Ok" THEN DataOut(s1.res, s1.detail, s1.store, NoBuilder)
        ELSE IF builder.secret_manager = NoSecretManager
             THEN DataOut("Ok", "", s1.store, NoBuilder)
        ELSE IF persist_variant(dto) THEN DataOut(s2.res, s2.detail, s2.store, NoBuilder)
        ELSE DataOut("Ok", "", s1.store, NoBuilder)

save_account_manager_data_writes(b, ek, st, builder, fault) ==
    LET s1 == Storage_set(b, ek, st, ACCOUNT_MANAGER_INDEXATION_KEY, ser_builder(builder),
                          FaultAt(fault, 1))
        dto == SecretManagerDto_from(builder.secret_manager)
    IN  <<Write("set", ACCOUNT_MANAGER_INDEXATION_KEY, Sealed(ek, ser_builder(builder)))>>
        \o (IF s1.res = "Ok" /\ builder.secret_manager # NoSecretManager /\ persist_variant(dto)
            THEN <<Write("set", SECRET_MANAGER_KEY, Sealed(ek, ser_secret_manager(dto)))>>
            ELSE <<>>)

\* match secret_manager_dto { SecretManagerDto::Mnemonic(_) => {} _ => { restore } }
restore_variant(dto) == dto.variant # "Mnemonic"

\* Ok(None) is the result "None" with no builder
get_account_manager_data(b, ek, st, fault, conversion) ==
    LET g1 == Storage_get(b, ek, st, ACCOUNT_MANAGER_INDEXATION_KEY, FaultAt(fault, 1))
        builder == de_builder(g1.val)
        g2 == Storage_get(b, ek, st, SECRET_MANAGER_KEY, FaultAt(fault, 2))
        dto == de_secret_manager(g2.val)
        c == SecretManager_try_from(dto, conversion)
    IN  IF g1.tag = "Err" THEN DataOut(g1.res, g1.detail, st, NoBuilder)
        ELSE IF g1.tag = "None" THEN DataOut("Ok", "None", st, NoBuilder)
        ELSE IF g2.tag = "Err" THEN DataOut(g2.res, g2.detail, st, NoBuilder)
        ELSE IF g2.tag = "None" THEN DataOut("Ok", "", st, builder)
        ELSE IF restore_variant(dto)
             THEN IF c.res # "Ok" THEN DataOut(c.res, c.detail, st, NoBuilder)
                  ELSE DataOut("Ok", "", st,
                               [builder EXCEPT !.secret_manager = c.secret_manager])
        ELSE DataOut("Ok", "", st, builder)

----------------------------------------------------------------------------
(* The record kept of an operation *)

Op(name, key, idx, val, records, fault, res, detail, out, accounts) ==
    [name |-> name, key |-> key, idx |-> idx, val |-> val, records |-> records,
     fault |-> fault, res |-> res, detail |-> detail, out |-> out, accounts |-> accounts]

NoOp == Op("none", "", -1, <<>>, <<>>, 0, "", "", <<>>, <<>>)

NoIndex == [i \in {} |-> <<>>]

\* what every operation does to the record of the last operation
Record(o) ==
    /\ op' = o
    /\ pre_store' = store

----------------------------------------------------------------------------
(* Tasks that share the StorageManagerHandle (Arc<Mutex<StorageManager>>) *)

Tasks == 1..NumTasks

Idle == -1
Waiting == 0

\* a manager operation a task calls through the handle; indexes is the clone of
\* account_indexes that the loop of get_accounts runs over
Job(name, account, idx, builder, indexes) ==
    [name |-> name, account |-> account, idx |-> idx, builder |-> builder, indexes |-> indexes]

NoAccount == [index |-> -1, payload |-> 0]

NoJob == Job("none", NoAccount, -1, NoBuilder, <<>>)

----------------------------------------------------------------------------
(* Specification SpecAdapter: a backend adapter used directly, from the    *)
(* empty bucket that JammdbStorageAdapter::new / RocksdbStorageAdapter::new *)
(* leave.                                                                   *)

\* HashMap<String, String> in the order the for loop visits it: any order, keys
\* distinct.  Batches of up to two entries: one put that ran before a fault and
\* one that did not is the partial state batch_set must never publish.
Batches ==
    {s \in UNION {[1..n -> AdapterKeys \X Values] : n \in 0..2} :
        \A i, j \in 1..Len(s) : i # j => s[i][1] # s[j][1]}

BatchKeys(records) == {records[i][1] : i \in 1..Len(records)}

InitAdapter ==
    /\ backend \in Backends
    /\ store = EmptyStore
    /\ encryption_key = "None"
    /\ manager = "closed"
    /\ account_indexes = <<>>
    /\ op = NoOp
    /\ pre_store = EmptyStore
    /\ latest = EmptyStore
    /\ removed = {}
    /\ saved = NoIndex
    /\ unsaved = {}
    /\ prior_ok = TRUE
    /\ writes = <<>>
    /\ saved_data = NoBuilder
    /\ lock = 0
    /\ pc = [t \in Tasks |-> Idle]
    /\ job = [t \in Tasks |-> NoJob]

Get ==
    \E key \in AdapterKeys, fault \in 0..1 :
        \E r \in {adapter_get(backend, store, key, fault)} :
            /\ Record(Op("get", key, -1, <<>>, <<>>, fault, r.res, r.detail, r.out, <<>>))
            /\ store' = r.store
            /\ writes' = <<>>
            /\ UNCHANGED <<saved_data, lock, pc, job>>
            /\ UNCHANGED <<backend, encryption_key, manager, account_indexes,
                           latest, removed, saved, unsaved, prior_ok>>

Set ==
    \E key \in AdapterKeys, record \in Values, fault \in 0..1 :
        \E r \in {adapter_set(backend, store, key, record, fault)} :
            /\ Record(Op("set", key, -1, record, <<>>, fault, r.res, r.detail, r.out, <<>>))
            /\ store' = r.store
            /\ latest' = IF r.res = "Ok" THEN Put(latest, key, record) ELSE latest
            /\ removed' = IF r.res = "Ok" THEN removed \ {key} ELSE removed
            /\ writes' = <<Write("set", key, record)>>
            /\ UNCHANGED <<saved_data, lock, pc, job>>
            /\ UNCHANGED <<backend, encryption_key, manager, account_indexes,
                           saved, unsaved, prior_ok>>

BatchSet ==
    \E records \in Batches :
        \E fault \in 0..(Len(records) + 1) :
            \E r \in {adapter_batch_set(backend, store, records, fault)} :
                /\ Record(Op("batch_set", "", -1, <<>>, records, fault, r.res, r.detail, r.out, <<>>))
                /\ store' = r.store
                /\ latest' = IF r.res = "Ok" THEN PutAll(latest, records) ELSE latest
                /\ removed' = IF r.res = "Ok" THEN removed \ BatchKeys(records) ELSE removed
                /\ writes' = [i \in 1..Len(records) |->
                                 Write("batch_set", records[i][1], records[i][2])]
                /\ UNCHANGED <<saved_data, lock, pc, job>>
                /\ UNCHANGED <<backend, encryption_key, manager, account_indexes,
                               saved, unsaved, prior_ok>>

Remove ==
    \E key \in AdapterKeys, fault \in 0..1 :
        \E r \in {adapter_remove(backend, store, key, fault)} :
            /\ Record(Op("remove", key, -1, <<>>, <<>>, fault, r.res, r.detail, r.out, <<>>))
            /\ store' = r.store
            /\ removed' = IF r.res = "Ok" THEN removed \cup {key} ELSE removed
            /\ writes' = <<Write("remove", key, <<>>)>>
            /\ UNCHANGED <<saved_data, lock, pc, job>>
            /\ UNCHANGED <<backend, encryption_key, manager, account_indexes,
                           latest, saved, unsaved, prior_ok>>

NextAdapter == Get \/ Set \/ BatchSet \/ Remove

SpecAdapter == InitAdapter /\ [][NextAdapter]_vars

----------------------------------------------------------------------------
(* Specification Spec: wallet sessions over one database.  A session builds *)
(* a StorageManager with new_storage_manager, uses it, and drops it; the    *)
(* next session runs over the store the last one left.  The database file   *)
(* is a jammdb file or a rocksdb directory for its whole life; a session    *)
(* opens it with any adapter of that engine.  The encryption key of a store *)
(* never changes: Spec is the wallet configured without a key,              *)
(* SpecEncrypted the wallet configured with one.                            *)

Engine(b) == IF b = "RocksDB" THEN "rocksdb" ELSE "jammdb"

\* the stores a first session can find: a fresh one, or one written by a build
\* with another DATABASE_SCHEMA_VERSION, which saved one account in it
StoreOfBuild(ek, v) ==
    LET account == [index |-> 0, payload |-> 1]
        s1 == Put(EmptyStore, DATABASE_SCHEMA_VERSION_KEY, Sealed(ek, ser_u8(v)))
        s2 == Put(s1, ACCOUNTS_INDEXATION_KEY, Sealed(ek, ser_indexes(<<0>>)))
    IN  Put(s2, AccountKey(0), Sealed(ek, ser_account(account)))

InitialStores(ek) ==
    {EmptyStore} \cup {StoreOfBuild(ek, v) : v \in Versions \ {DATABASE_SCHEMA_VERSION}}

\* the fault chosen for an operation is one of a storage call the operation made
Reached(fault, r) == fault = 0 \/ r.detail = "io"

\* every operation before the one being recorded returned success
PriorOk == prior_ok /\ op.res \in {"", "Ok"}

\* the state before the first session, for a wallet configured with encryption key ek
InitWith(ek) ==
    /\ backend \in Backends
    /\ encryption_key = ek
    /\ store \in InitialStores(ek)
    /\ manager = "closed"
    /\ account_indexes = <<>>
    /\ op = NoOp
    /\ pre_store = store
    /\ latest = EmptyStore
    /\ removed = {}
    /\ saved = NoIndex
    /\ unsaved = {}
    /\ prior_ok = TRUE
    /\ writes = <<>>
    /\ saved_data = NoBuilder
    /\ lock = 0
    /\ pc = [t \in Tasks |-> Idle]
    /\ job = [t \in Tasks |-> NoJob]

\* new_storage_manager(None, storage)
Init == InitWith("None")

\* new_storage_manager(Some(key), storage)
InitEncrypted == InitWith("Key")

NewStorageManager ==
    /\ manager = "closed"
    /\ \E b \in {x \in Backends : Engine(x) = Engine(backend)}, fault \in 0..3 :
        \E r \in {new_storage_manager(b, encryption_key, store, fault)} :
            /\ Reached(fault, r)
            /\ backend' = b
            /\ Record(Op("new_storage_manager", "", -1, <<>>, <<>>, fault, r.res, r.detail, <<>>, <<>>))
            /\ store' = r.store
            /\ manager' = r.manager
            /\ account_indexes' = r.account_indexes
            /\ prior_ok' = PriorOk
            /\ unsaved' = IF PriorOk THEN unsaved ELSE {}
            /\ writes' = new_storage_manager_writes(b, encryption_key, store, fault)
            /\ UNCHANGED <<saved_data, lock, pc, job>>
            /\ UNCHANGED <<encryption_key, latest, removed, saved>>

\* the wallet session ends: the handle is dropped
DropManager ==
    /\ manager = "open"
    /\ Record(Op("drop", "", -1, <<>>, <<>>, 0, "Ok", "", <<>>, <<>>))
    /\ manager' = "closed"
    /\ account_indexes' = <<>>
    /\ prior_ok' = PriorOk
    /\ unsaved' = IF PriorOk THEN unsaved ELSE {}
    /\ writes' = <<>>
    /\ UNCHANGED <<saved_data, lock, pc, job>>
    /\ UNCHANGED <<backend, store, encryption_key, latest, removed, saved>>

SaveAccount ==
    /\ manager = "open"
    /\ \E account \in Accounts, fault \in 0..2 :
        \E r \in {save_account(backend, encryption_key, store, account_indexes, account, fault)} :
            /\ Reached(fault, r)
            /\ Record(Op("save_account", "", account.index, ser_account(account), <<>>,
                         fault, r.res, r.detail, <<>>, <<>>))
            /\ store' = r.store
            /\ account_indexes' = r.account_indexes
            /\ saved' = IF r.res = "Ok" THEN Put(saved, account.index, account) ELSE saved
            /\ unsaved' = IF ~PriorOk THEN {}
                          ELSE IF r.res = "Ok" THEN unsaved \ {account.index}
                          ELSE unsaved
            /\ prior_ok' = PriorOk
            /\ writes' = save_account_writes(backend, encryption_key, store,
                                             account_indexes, account, fault)
            /\ UNCHANGED <<saved_data, lock, pc, job>>
            /\ UNCHANGED <<backend, encryption_key, manager, latest, removed>>

RemoveAccount ==
    /\ manager = "open"
    /\ \E account_index \in Indexes, fault \in 0..2 :
        \E r \in {remove_account(backend, encryption_key, store, account_indexes,
                                account_index, fault)} :
            /\ Reached(fault, r)
            /\ Record(Op("remove_account", "", account_index, <<>>, <<>>,
                         fault, r.res, r.detail, <<>>, <<>>))
            /\ store' = r.store
            /\ account_indexes' = r.account_indexes
            /\ saved' = Delete(saved, account_index)
            /\ unsaved' = IF ~PriorOk THEN {}
                          ELSE IF r.res # "Ok" THEN unsaved \ {account_index}
                          ELSE IF account_index \in DOMAIN saved
                               THEN unsaved \cup {account_index}
                               ELSE unsaved
            /\ prior_ok' = PriorOk
            /\ writes' = remove_account_writes(backend, encryption_key, store,
                                               account_indexes, account_index, fault)
            /\ UNCHANGED <<saved_data, lock, pc, job>>
            /\ UNCHANGED <<backend, encryption_key, manager, latest, removed>>

GetAccounts ==
    /\ manager = "open"
    /\ \E fault \in 0..(NumIndexes + 1) :
        \E r \in {get_accounts(backend, encryption_key, store, account_indexes, fault)} :
            /\ Reached(fault, r)
            /\ Record(Op("get_accounts", "", -1, <<>>, <<>>, fault, r.res, r.detail, <<>>, r.accounts))
            /\ store' = r.store
            /\ account_indexes' = r.account_indexes
            /\ prior_ok' = PriorOk
            /\ unsaved' = IF PriorOk THEN unsaved ELSE {}
            /\ writes' = <<>>
            /\ UNCHANGED <<saved_data, lock, pc, job>>
            /\ UNCHANGED <<backend, encryption_key, manager, latest, removed, saved>>

SaveAccountManagerData ==
    /\ manager = "open"
    /\ \E builder \in Builders, fault \in 0..2 :
        \E r \in {save_account_manager_data(backend, encryption_key, store, builder, fault)} :
            /\ Reached(fault, r)
            /\ Record(Op("save_account_manager_data", "", -1, builder, <<>>,
                         fault, r.res, r.detail, NoBuilder, <<>>))
            /\ store' = r.store
            /\ saved_data' = IF r.res = "Ok" THEN builder ELSE saved_data
            /\ prior_ok' = PriorOk
            /\ unsaved' = IF PriorOk THEN unsaved ELSE {}
            /\ writes' = save_account_manager_data_writes(backend, encryption_key, store,
                                                          builder, fault)
            /\ UNCHANGED <<lock, pc, job>>
            /\ UNCHANGED <<backend, encryption_key, manager, account_indexes,
                           latest, removed, saved>>

GetAccountManagerData ==
    /\ manager = "open"
    /\ \E fault \in 0..2, conversion \in Conversions :
        \E r \in {get_account_manager_data(backend, encryption_key, store, fault,
                                          conversion)} :
            /\ Reached(fault, r)
            /\ conversion = "Err" => r.res = "Client"
            /\ Record(Op("get_account_manager_data", "", -1, <<>>, <<>>,
                         fault, r.res, r.detail, r.builder, <<>>))
            /\ store' = r.store
            /\ prior_ok' = PriorOk
            /\ unsaved' = IF PriorOk THEN unsaved ELSE {}
            /\ writes' = <<>>
            /\ UNCHANGED <<lock, pc, job>>
            /\ UNCHANGED <<backend, encryption_key, manager, account_indexes,
                           latest, removed, saved, saved_data>>

Next == NewStorageManager \/ DropManager \/ SaveAccount \/ RemoveAccount \/ GetAccounts

Spec == Init /\ [][Next]_vars

SpecEncrypted == InitEncrypted /\ [][Next]_vars

\* The account operations with one content per account: save_account pushes the
\* index and issues its two writes without looking into the account, so the
\* steps of the operations are followed over accounts that differ by index only.
AccountOf(o) == o.val = ser_account([index |-> o.idx, payload |-> 1])

NextSteps ==
    \/ NewStorageManager
    \/ DropManager
    \/ SaveAccount /\ AccountOf(op')
    \/ RemoveAccount
    \/ GetAccounts

SpecSteps == Init /\ [][NextSteps]_vars

----------------------------------------------------------------------------
(* Specification SpecWallet: every operation of the StorageManager, the     *)
(* account manager data included, on a wallet that has one account (index   *)
(* 0) and one set of client options; the secret manager of the builder is   *)
(* any variant.                                                             *)

\* the calls a wallet with one account and one set of client options makes
WalletCall(o) ==
    CASE o.name = "save_account" -> o.val = ser_account([index |-> 0, payload |-> 1])
      [] o.name = "remove_account" -> o.idx = 0
      [] o.name = "save_account_manager_data" -> o.val.client_options = 1
      [] OTHER -> TRUE

NextWallet ==
    \/ NewStorageManager
    \/ DropManager
    \/ SaveAccount /\ WalletCall(op')
    \/ RemoveAccount /\ WalletCall(op')
    \/ GetAccounts
    \/ SaveAccountManagerData /\ WalletCall(op')
    \/ GetAccountManagerData

SpecWallet == Init /\ [][NextWallet]_vars

\* the same wallet, built with an encryption key
SpecWalletEncrypted == InitEncrypted /\ [][NextWallet]_vars

----------------------------------------------------------------------------
(* Specification SpecTasks: tasks call manager operations through the one   *)
(* StorageManagerHandle.  A task calls handle.lock().await, runs the        *)
(* operation on the guard (every await, a storage call or the read of the   *)
(* secret manager's RwLock, ends a step of its own) and drops the guard     *)
(* when the operation returns, returns early on an error, or unwinds.  The  *)
(* handle lives as long as the tasks; backend faults are left out of the    *)
(* tasks' storage calls.                                                    *)

\* Mutex::lock().await completes when no other task holds the guard
lock_always(l) == TRUE

lock_free(l) == l = 0

\* the builders the tasks save: one whose secret manager is persisted too, and
\* one whose secret manager is not
TaskBuilders ==
    {x \in Builders : /\ x.client_options = 1
                      /\ x.secret_manager.variant \in {"LedgerNano", "Mnemonic"}}

TaskJobs ==
    {Job("save_account", a, a.index, NoBuilder, <<>>) : a \in Accounts}
    \cup {Job("remove_account", NoAccount, i, NoBuilder, <<>>) : i \in Indexes}
    \cup {Job("get_accounts", NoAccount, -1, NoBuilder, <<>>)}
    \cup {Job("save_account_manager_data", NoAccount, -1, x, <<>>) : x \in TaskBuilders}

\* the operation of task t goes on to its storage call n
GoOn(t, n, j) ==
    /\ pc' = [pc EXCEPT ![t] = n]
    /\ job' = [job EXCEPT ![t] = j]
    /\ UNCHANGED lock

\* the operation of task t is over: the guard is dropped
Return(t) ==
    /\ pc' = [pc EXCEPT ![t] = Idle]
    /\ job' = [job EXCEPT ![t] = NoJob]
    /\ lock' = IF lock = t THEN 0 ELSE lock

TaskFrame ==
    UNCHANGED <<backend, encryption_key, manager, op, pre_store, latest, removed,
                unsaved, prior_ok, writes>>

\* handle.lock() is called
Call(t) ==
    /\ manager = "open"
    /\ pc[t] = Idle
    /\ pc' = [pc EXCEPT ![t] = Waiting]
    /\ UNCHANGED <<store, account_indexes, saved, saved_data, lock, job>>
    /\ TaskFrame

\* .await of the lock completes and the operation is entered
Lock(t) ==
    /\ pc[t] = Waiting
    /\ lock_free(lock)
    /\ \E j \in TaskJobs :
          /\ job' = [job EXCEPT ![t] = j]
          /\ saved' = IF j.name = "remove_account" THEN Delete(saved, j.idx) ELSE saved
    /\ lock' = t
    /\ pc' = [pc EXCEPT ![t] = 1]
    /\ UNCHANGED <<store, account_indexes, saved_data>>
    /\ TaskFrame

SaveAccountStep(t) ==
    /\ job[t].name = "save_account"
    /\ \/ /\ pc[t] = 1
          /\ \E indexes2 \in {push_if_absent(account_indexes, job[t].account.index)} :
               \E s1 \in {Storage_set(backend, encryption_key, store, ACCOUNTS_INDEXATION_KEY,
                                      ser_indexes(indexes2), 0)} :
                  /\ account_indexes' = indexes2
                  /\ store' = s1.store
                  /\ IF s1.res = "Ok" THEN GoOn(t, 2, job[t]) ELSE Return(t)
          /\ UNCHANGED saved
       \/ /\ pc[t] = 2
          /\ \E s2 \in {Storage_set(backend, encryption_key, store,
                                     AccountKey(job[t].account.index),
                                     ser_account(job[t].account), 0)} :
                  /\ store' = s2.store
                  /\ saved' = IF s2.res = "Ok"
                              THEN Put(saved, job[t].account.index, job[t].account)
                              ELSE saved
          /\ Return(t)
          /\ UNCHANGED account_indexes
    /\ UNCHANGED saved_data
    /\ TaskFrame

RemoveAccountStep(t) ==
    /\ job[t].name = "remove_account"
    /\ \/ /\ pc[t] = 1
          /\ \E r \in {Storage_remove(backend, store, AccountKey(job[t].idx), 0)} :
                  /\ store' = r.store
                  /\ IF r.res = "Ok" THEN GoOn(t, 2, job[t]) ELSE Return(t)
          /\ UNCHANGED account_indexes
       \/ /\ pc[t] = 2
          /\ \E indexes2 \in {retain(account_indexes, job[t].idx)} :
               \E s \in {Storage_set(backend, encryption_key, store, ACCOUNTS_INDEXATION_KEY,
                                     ser_indexes(indexes2), 0)} :
                  /\ account_indexes' = indexes2
                  /\ store' = s.store
          /\ Return(t)
    /\ UNCHANGED <<saved, saved_data>>
    /\ TaskFrame

GetAccountsStep(t) ==
    /\ job[t].name = "get_accounts"
    /\ \/ /\ pc[t] = 1
          /\ \E g \in {Storage_get(backend, encryption_key, store, ACCOUNTS_INDEXATION_KEY, 0)} :
                IF g.tag # "Some"
                THEN Return(t) /\ UNCHANGED account_indexes
                ELSE \E indexes2 \in {IF account_indexes = <<>> THEN de_indexes(g.val)
                                       ELSE account_indexes} :
                        /\ account_indexes' = indexes2
                        /\ IF indexes2 = <<>> THEN Return(t)
                           ELSE GoOn(t, 2, [job[t] EXCEPT !.indexes = indexes2])
       \/ /\ pc[t] >= 2
          /\ \E g \in {Storage_get(backend, encryption_key, store,
                                    AccountKey(job[t].indexes[pc[t] - 1]), 0)} :
                IF g.tag = "Some" /\ pc[t] - 1 < Len(job[t].indexes)
                THEN GoOn(t, pc[t] + 1, job[t])
                ELSE Return(t)               \* Ok(accounts), the error, or the unwrap panic
          /\ UNCHANGED account_indexes
    /\ UNCHANGED <<store, saved, saved_data>>
    /\ TaskFrame

SaveAccountManagerDataStep(t) ==
    /\ job[t].name = "save_account_manager_data"
    /\ \/ /\ pc[t] = 1
          /\ \E s1 \in {Storage_set(backend, encryption_key, store,
                                     ACCOUNT_MANAGER_INDEXATION_KEY,
                                     ser_builder(job[t].builder), 0)} :
                /\ store' = s1.store
                /\ IF s1.res = "Ok" /\ job[t].builder.secret_manager # NoSecretManager
                   THEN GoOn(t, 2, job[t]) /\ UNCHANGED saved_data
                   ELSE /\ Return(t)
                        /\ saved_data' = IF s1.res = "Ok" THEN job[t].builder ELSE saved_data
       \* secret_manager.read().await completes, the guard of the handle still held
       \/ /\ pc[t] = 2
          /\ \E dto \in {SecretManagerDto_from(job[t].builder.secret_manager)} :
                IF persist_variant(dto)
                THEN \E s2 \in {Storage_set(backend, encryption_key, store, SECRET_MANAGER_KEY,
                                            ser_secret_manager(dto), 0)} :
                        /\ store' = s2.store
                        /\ saved_data' = IF s2.res = "Ok" THEN job[t].builder ELSE saved_data
                ELSE /\ UNCHANGED store
                     /\ saved_data' = job[t].builder
          /\ Return(t)
    /\ UNCHANGED <<account_indexes, saved>>
    /\ TaskFrame

NextTasks ==
    \/ NewStorageManager
    \/ \E t \in Tasks :
          \/ Call(t)
          \/ Lock(t)
          \/ SaveAccountStep(t)
          \/ RemoveAccountStep(t)
          \/ GetAccountsStep(t)
          \/ SaveAccountManagerDataStep(t)

SpecTasks == Init /\ [][NextTasks]_vars

----------------------------------------------------------------------------
(* Claims about the backend adapters (checked under SpecAdapter) *)

\* C1: on every adapter, once remove(k) has returned success, the next get(k)
\* (no successful set or batch_set of k in between, no backend fault in the get)
\* signals not-found; it never returns the record stored before the remove.
C1_RemoveThenGetNotFound ==
    (op.name = "get" /\ op.fault = 0 /\ op.key \in removed) => NotFoundSignal(op)

\* C2: on every adapter, once set(k, v) has returned success, get(k) returns
\* exactly v (no successful remove of k in between, no backend fault in the get),
\* whether k was absent or held another record; and every record a get returns is
\* the one of the most recent successful set or batch_set on that key.
C2_SetThenGet ==
    /\ (op.name = "get" /\ op.fault = 0 /\ op.key \in DOMAIN latest /\ op.key \notin removed)
           => (op.res = "Ok" /\ op.out = latest[op.key])
    /\ (op.name = "get" /\ op.res = "Ok")
           => (op.key \in DOMAIN latest /\ op.out = latest[op.key])

\* C2 witness: a get returned the record of the last successful set on its key
C2_Witness ==
    /\ op.name = "get" /\ op.res = "Ok"
    /\ op.key \in DOMAIN latest /\ op.out = latest[op.key]
    /\ op.out \in Values

\* C3: batch_set is all-or-nothing on every adapter: when it returns an error the
\* store is what it was before the call, when it returns success every entry of
\* the batch is in the store.
C3_BatchAllOrNothing ==
    op.name = "batch_set" =>
        /\ op.res # "Ok" => store = pre_store
        /\ op.res = "Ok" =>
              \A i \in 1..Len(op.records) :
                  /\ op.records[i][1] \in DOMAIN store
                  /\ store[op.records[i][1]] = op.records[i][2]

\* C3 witness: a batch of two entries failed at its second put, after the first
\* put (of a key the store did not hold) had run inside the transaction
C3_Witness ==
    /\ op.name = "batch_set" /\ op.res # "Ok"
    /\ Len(op.records) = 2 /\ op.fault = 2
    /\ op.records[1][1] \notin DOMAIN pre_store
    /\ store = pre_store

\* C4: on every adapter, remove(k) of a key the store does not hold returns
\* success (when no backend fault occurs) and leaves the store unchanged.
C4_RemoveAbsentOk ==
    (op.name = "remove" /\ op.fault = 0 /\ op.key \notin DOMAIN pre_store)
        => (op.res = "Ok" /\ store = pre_store)

----------------------------------------------------------------------------
(* Claims about the StorageManager (checked under Spec) *)

\* what Storage reads back from a record of the store
Unsealed(ek, bytes) == IF ek = "Key" THEN Decrypt(bytes) ELSE bytes

\* the registry persisted in a store, an absent key counting as the empty sequence
PersistedIndexes(st) ==
    IF ACCOUNTS_INDEXATION_KEY \in DOMAIN st
    THEN de_indexes(Unsealed(encryption_key, st[ACCOUNTS_INDEXATION_KEY]))
    ELSE <<>>

Count(indexes, idx) == Cardinality({i \in 1..Len(indexes) : indexes[i] = idx})

\* the store held a schema-version record other than the running version when op started
StoredVersionDiffers ==
    /\ DATABASE_SCHEMA_VERSION_KEY \in DOMAIN pre_store
    /\ pre_store[DATABASE_SCHEMA_VERSION_KEY]
          # Sealed(encryption_key, ser_u8(DATABASE_SCHEMA_VERSION))

\* C5: new_storage_manager over a store with no schema-version record (and no
\* backend fault) succeeds, leaves the running DATABASE_SCHEMA_VERSION under the
\* schema-version key and an empty in-memory registry, on every adapter.
C5_FirstRunInitializes ==
    (/\ op.name = "new_storage_manager" /\ op.fault = 0
     /\ DATABASE_SCHEMA_VERSION_KEY \notin DOMAIN pre_store)
        => /\ op.res = "Ok" /\ manager = "open"
           /\ DATABASE_SCHEMA_VERSION_KEY \in DOMAIN store
           /\ store[DATABASE_SCHEMA_VERSION_KEY]
                 = Sealed(encryption_key, ser_u8(DATABASE_SCHEMA_VERSION))
           /\ account_indexes = <<>>

\* C6: over a store whose persisted schema version differs from
\* DATABASE_SCHEMA_VERSION, construction fails with the distinct error kind
\* UnsupportedSchemaVersion (not the kind Storage of a backend-reported failure)
\* and yields no handle.
C6_FailsAsUnsupportedSchemaVersion ==
    (op.name = "new_storage_manager" /\ op.fault = 0 /\ StoredVersionDiffers)
        => (op.res = "UnsupportedSchemaVersion" /\ manager = "closed")

\* C7: a new_storage_manager call over a store of another schema version
\* writes, overwrites and removes no key of the store.
C7_MismatchLeavesStoreUntouched ==
    (op.name = "new_storage_manager" /\ StoredVersionDiffers) => store = pre_store

\* C7 witness: a construction refused for the schema version left a store that
\* holds a registry and an account record as it was
C7_Witness ==
    /\ op.name = "new_storage_manager"
    /\ op.detail = "unsupported database schema version"
    /\ ACCOUNTS_INDEXATION_KEY \in DOMAIN pre_store
    /\ AccountKey(0) \in DOMAIN pre_store
    /\ store = pre_store

\* C8: the in-memory and the persisted registry never hold an index twice, and
\* hold exactly once every index saved with success and not removed since.
C8_RegistryHasNoDuplicate ==
    /\ \A idx \in Indexes :
          /\ Count(account_indexes, idx) <= 1
          /\ Count(PersistedIndexes(store), idx) <= 1
    /\ \A idx \in DOMAIN saved :
          /\ manager = "open" => Count(account_indexes, idx) = 1
          /\ Count(PersistedIndexes(store), idx) = 1

\* C8 witness: save_account succeeded for an index the persisted registry held already
C8_Witness ==
    /\ op.name = "save_account" /\ op.res = "Ok"
    /\ Count(PersistedIndexes(pre_store), op.idx) = 1
    /\ Count(PersistedIndexes(store), op.idx) = 1
    /\ Count(account_indexes, op.idx) = 1

HasIndex(accounts, idx) == \E i \in 1..Len(accounts) : accounts[i].index = idx

\* C9: when every operation so far succeeded and idx was saved and then removed
\* (and not saved again), get_accounts (no backend fault) returns successfully,
\* without an account of index idx and with every account saved and not removed.
C9_SaveRemoveGetExcludes ==
    (op.name = "get_accounts" /\ op.fault = 0 /\ prior_ok) =>
        \A idx \in unsaved :
            /\ op.res = "Ok"
            /\ ~HasIndex(op.accounts, idx)
            /\ \A j \in DOMAIN saved : \E i \in 1..Len(op.accounts) : op.accounts[i] = saved[j]

\* C9 witness: get_accounts returned another account after an index was saved and removed
C9_Witness ==
    /\ op.name = "get_accounts" /\ op.res = "Ok" /\ prior_ok
    /\ unsaved # {} /\ DOMAIN saved # {}
    /\ Len(op.accounts) = 1

\* C10: between manager operations every index of the persisted registry has its
\* account record in the store, and get_accounts never hits the unwrap on a
\* missing record.
C10_RegistryHasRecords ==
    /\ \A i \in 1..Len(PersistedIndexes(store)) :
          AccountKey(PersistedIndexes(store)[i]) \in DOMAIN store
    /\ op.res # "Panic"


----------------------------------------------------------------------------
(* Claims about the registry and the account records (checked under Spec) *)

\* the indexes of the persisted registry, and the indexes that have a record
RegisteredIndexes(st) == {PersistedIndexes(st)[i] : i \in 1..Len(PersistedIndexes(st))}

StoredRecordIndexes(st) == {idx \in Indexes : AccountKey(idx) \in DOMAIN st}

\* C11: while every manager operation so far returned success, the indexes of
\* the persisted registry are exactly the indexes that have an account record in
\* the backend, on every adapter.
C11_RegistryMirrorsRecords ==
    (prior_ok /\ op.res \in {"", "Ok"})
        => RegisteredIndexes(store) = StoredRecordIndexes(store)


----------------------------------------------------------------------------
(* Claims about the account manager data (checked under SpecWallet) *)

\* the secret-manager snapshot persisted in a store
PersistedSnapshot(st) == de_secret_manager(Unsealed(encryption_key, st[SECRET_MANAGER_KEY]))

WritesTo(key) == {i \in 1..Len(writes) : writes[i].key = key}

\* C12: the record under SECRET_MANAGER_KEY is never the Mnemonic variant, and a
\* save_account_manager_data whose builder holds a mnemonic secret manager makes
\* no write to SECRET_MANAGER_KEY and leaves what is stored under it as it was.
C12_MnemonicNeverPersisted ==
    /\ SECRET_MANAGER_KEY \in DOMAIN store => PersistedSnapshot(store).variant # "Mnemonic"
    /\ (op.name = "save_account_manager_data" /\ op.val.secret_manager.variant = "Mnemonic")
           => /\ WritesTo(SECRET_MANAGER_KEY) = {}
              /\ (SECRET_MANAGER_KEY \in DOMAIN store) = (SECRET_MANAGER_KEY \in DOMAIN pre_store)
              /\ SECRET_MANAGER_KEY \in DOMAIN store
                     => store[SECRET_MANAGER_KEY] = pre_store[SECRET_MANAGER_KEY]

\* C12 witness: a builder with a mnemonic secret manager was saved with success
\* over a store that held the snapshot of another variant
C12_Witness ==
    /\ op.name = "save_account_manager_data" /\ op.res = "Ok"
    /\ op.val.secret_manager.variant = "Mnemonic"
    /\ SECRET_MANAGER_KEY \in DOMAIN pre_store
    /\ WritesTo(ACCOUNT_MANAGER_INDEXATION_KEY) # {}
    /\ WritesTo(SECRET_MANAGER_KEY) = {}

\* C13: when the most recent successful save_account_manager_data had a builder
\* with a mnemonic secret manager, the builder a get_account_manager_data returns
\* has no secret manager, whatever was saved before.
C13_MnemonicNotReconstructed ==
    (/\ op.name = "get_account_manager_data" /\ op.res = "Ok"
     /\ saved_data.secret_manager.variant = "Mnemonic")
        => op.out.secret_manager = NoSecretManager


----------------------------------------------------------------------------
(* Claims about tasks sharing the handle (checked under SpecTasks) *)

\* the tasks that are between the first and the last storage call of an operation
InOperation == {t \in Tasks : pc[t] >= 1}

\* C14: at most one task is inside a manager operation at any time, and it holds
\* the lock; no update is lost: every account whose save_account returned
\* success, with no remove_account of its index begun since, is in the persisted
\* registry exactly once and has its record as saved.
C14_OperationsMutuallyExclusive ==
    /\ Cardinality(InOperation) <= 1
    /\ \A t \in InOperation : lock = t
    /\ \A idx \in DOMAIN saved :
          /\ Count(PersistedIndexes(store), idx) = 1
          /\ AccountKey(idx) \in DOMAIN store
          /\ store[AccountKey(idx)] = Sealed(encryption_key, ser_account(saved[idx]))

\* C14 witness: after a save_account has completed, a task is between the two
\* storage calls of a save_account for another index, holding the lock, while
\* another task waits for the lock
C14_Witness ==
    \E t, u \in Tasks :
        /\ t # u
        /\ job[t].name = "save_account" /\ pc[t] = 2 /\ lock = t
        /\ pc[u] = Waiting
        /\ DOMAIN saved # {}
        /\ job[t].idx \notin DOMAIN saved


----------------------------------------------------------------------------
(* Claims about encryption (checked under SpecWalletEncrypted) *)

\* the registries a manager can hold
IndexSeqs == UNION {[1..n -> Indexes] : n \in 0..NumIndexes}

\* the plaintext serializations of the values the manager stores under a key
PlainRecords(key) ==
    CASE key = DATABASE_SCHEMA_VERSION_KEY -> {ser_u8(v) : v \in Versions}
      [] key = ACCOUNTS_INDEXATION_KEY -> {ser_indexes(x) : x \in IndexSeqs}
      [] key = ACCOUNT_MANAGER_INDEXATION_KEY -> {ser_builder(x) : x \in Builders}
      [] key = SECRET_MANAGER_KEY ->
             {ser_secret_manager(SecretManagerDto_from(x)) : x \in SecretManagers}
      [] OTHER -> {ser_account(x) : x \in Accounts}

AllPlainRecords ==
    UNION {PlainRecords(key) : key \in {DATABASE_SCHEMA_VERSION_KEY, ACCOUNTS_INDEXATION_KEY,
                                        ACCOUNT_MANAGER_INDEXATION_KEY, SECRET_MANAGER_KEY,
                                        AccountKey(0)}}

\* C15: with an encryption key, every record a manager operation hands to the
\* adapter's set is the ciphertext of a serialization for its key and is no
\* plaintext serialization; so is every record of the store of an open manager.
C15_AdapterSeesCiphertextOnly ==
    encryption_key = "Key" =>
        /\ \A i \in 1..Len(writes) :
              writes[i].call = "set" =>
                  /\ IsCipher(writes[i].record)
                  /\ writes[i].record \notin AllPlainRecords
                  /\ Decrypt(writes[i].record) \in PlainRecords(writes[i].key)
        /\ manager = "open" =>
              \A key \in DOMAIN store :
                  IsCipher(store[key]) /\ store[key] \notin AllPlainRecords

\* C15 witness: with an encryption key, a save_account_manager_data wrote the
\* builder and the secret-manager snapshot, both as ciphertext, in a store whose
\* schema version and registry were written through the manager too
C15_Witness ==
    /\ encryption_key = "Key"
    /\ op.name = "save_account_manager_data" /\ op.res = "Ok"
    /\ Len(writes) = 2
    /\ writes[2].key = SECRET_MANAGER_KEY /\ IsCipher(writes[2].record)
    /\ store[SECRET_MANAGER_KEY] = writes[2].record
    /\ ACCOUNTS_INDEXATION_KEY \in DOMAIN store
    /\ AccountKey(0) \in DOMAIN store


----------------------------------------------------------------------------
(* Claims about the steps of save_account and remove_account (checked      *)
(* under SpecSteps, as properties of every step)                            *)

\* the record of a key changed, appeared or disappeared between two stores
RecordDiffers(st1, st2, key) ==
    \/ (key \in DOMAIN st1) # (key \in DOMAIN st2)
    \/ key \in DOMAIN st1 /\ key \in DOMAIN st2 /\ st1[key] # st2[key]

\* C16: every save_account adds its index to the in-memory registry only if
\* absent, then writes that registry, then the account record; when the registry
\* write fails the record write is not attempted, the error is returned and the
\* store is left as it was; the record is written only when the persisted
\* registry holds the index.
C16_SaveAccountOrder ==
    [][op'.name = "save_account" =>
          /\ account_indexes' = push_if_absent(account_indexes, op'.idx)
          /\ Len(writes') \in {1, 2}
          /\ writes'[1] = Write("set", ACCOUNTS_INDEXATION_KEY,
                                Sealed(encryption_key, ser_indexes(account_indexes')))
          /\ Len(writes') = 1 => (op'.res # "Ok" /\ op'.fault = 1 /\ store' = store)
          /\ op'.fault = 1 => Len(writes') = 1
          /\ Len(writes') = 2 =>
                /\ writes'[2] = Write("set", AccountKey(op'.idx),
                                      Sealed(encryption_key, op'.val))
                /\ op'.idx \in RegisteredIndexes(store')
          /\ RecordDiffers(store, store', AccountKey(op'.idx))
                => op'.idx \in RegisteredIndexes(store')
    ]_vars

\* C16 witness: a save_account of an unregistered index failed at its registry
\* write and left no account record
C16_Witness ==
    /\ op.name = "save_account" /\ op.res # "Ok" /\ op.fault = 1
    /\ Len(writes) = 1
    /\ op.idx \notin RegisteredIndexes(store)
    /\ AccountKey(op.idx) \notin DOMAIN store
    /\ Contains(account_indexes, op.idx)

\* C17: every remove_account first removes the account record, then drops the
\* index from the in-memory registry, then writes that registry; when the removal
\* of the record returns an error the operation returns it and the in-memory
\* registry and the store are left as they were.
C17_RemoveAccountOrder ==
    [][op'.name = "remove_account" =>
          /\ Len(writes') \in {1, 2}
          /\ writes'[1] = Write("remove", AccountKey(op'.idx), <<>>)
          /\ Len(writes') = 1 =>
                /\ op'.res # "Ok"
                /\ account_indexes' = account_indexes
                /\ store' = store
          /\ Len(writes') = 2 =>
                /\ account_indexes' = retain(account_indexes, op'.idx)
                /\ writes'[2] = Write("set", ACCOUNTS_INDEXATION_KEY,
                                      Sealed(encryption_key, ser_indexes(account_indexes')))
                /\ op'.res = "Ok" => PersistedIndexes(store') = account_indexes'
    ]_vars

\* C17 witness: a remove_account of a registered index failed at the removal of
\* the record; the index is still in both registries
C17_Witness ==
    /\ op.name = "remove_account" /\ op.res # "Ok"
    /\ Len(writes) = 1
    /\ Contains(account_indexes, op.idx)
    /\ op.idx \in RegisteredIndexes(store)


----------------------------------------------------------------------------
(* Claims about get_accounts and the in-memory registry (checked under Spec) *)

\* C18: when every manager operation so far returned success (restarts of the
\* manager included), get_accounts returns with success one account per index of
\* the persisted registry, in the order of the registry, each the account most
\* recently saved for its index; it returns the empty list when the store holds
\* no registry.
C18_GetAccountsReturnsRegistry ==
    (op.name = "get_accounts" /\ op.fault = 0 /\ prior_ok) =>
        /\ op.res = "Ok"
        /\ Len(op.accounts) = Len(PersistedIndexes(store))
        /\ \A i \in 1..Len(op.accounts) :
              /\ op.accounts[i].index = PersistedIndexes(store)[i]
              /\ op.accounts[i].index \in DOMAIN saved
              /\ op.accounts[i] = saved[op.accounts[i].index]
        /\ ACCOUNTS_INDEXATION_KEY \notin DOMAIN store => op.accounts = <<>>

\* C18 witness: get_accounts returned two accounts in the order of a registry
\* that is not sorted, the second of them saved twice with different contents
C18_Witness ==
    /\ op.name = "get_accounts" /\ op.res = "Ok" /\ prior_ok
    /\ PersistedIndexes(store) = <<1, 0>>
    /\ Len(op.accounts) = 2
    /\ op.accounts[1].index = 1
    /\ op.accounts[2] = [index |-> 0, payload |-> 2]


\* C19: whenever a StorageManager exists and no operation is running, its
\* in-memory account_indexes equals the registry persisted in the store (an
\* absent registry counting as the empty sequence).
C19_CacheCoherent ==
    manager = "open" => account_indexes = PersistedIndexes(store)

----------------------------------------------------------------------------
(* Claims about the schema version (checked under SpecWallet) *)

ManagerOperations ==
    {"save_account", "remove_account", "get_accounts",
     "save_account_manager_data", "get_account_manager_data"}

\* C20: after every step that leaves a StorageManager in existence, the store
\* holds DATABASE_SCHEMA_VERSION under the schema-version key; and no
\* save_account, remove_account, get_accounts, save_account_manager_data or
\* get_account_manager_data makes a write call on that key or changes its record.
C20_SchemaVersionStable ==
    [][/\ manager' = "open" =>
             /\ DATABASE_SCHEMA_VERSION_KEY \in DOMAIN store'
             /\ de_u8(Unsealed(encryption_key, store'[DATABASE_SCHEMA_VERSION_KEY]))
                   = DATABASE_SCHEMA_VERSION
       /\ op'.name \in ManagerOperations =>
             /\ \A i \in 1..Len(writes') : writes'[i].key # DATABASE_SCHEMA_VERSION_KEY
             /\ ~RecordDiffers(store, store', DATABASE_SCHEMA_VERSION_KEY)
    ]_vars

\* C20 witness: a manager opened on a fresh store has saved an account and the
\* account manager data with a secret-manager snapshot, and removed the account;
\* the schema-version record is the running version
C20_Witness ==
    /\ manager = "open"
    /\ op.name = "remove_account" /\ op.res = "Ok" /\ Len(writes) = 2
    /\ SECRET_MANAGER_KEY \in DOMAIN store
    /\ ACCOUNT_MANAGER_INDEXATION_KEY \in DOMAIN store
    /\ store[DATABASE_SCHEMA_VERSION_KEY]
          = Sealed(encryption_key, ser_u8(DATABASE_SCHEMA_VERSION))

====
